---- MODULE Spec2Model ----
(***************************************************************************)
(* Model of src/energy_saver.py, the Streamlit "Daily Energy Consumption   *)
(* Tracker": the session state (user_profile, energy_data), the script's  *)
(* handlers (save profile, save consumption, clear all data), the pure    *)
(* calculators and the analytics / insights computed from the store.      *)
(*                                                                         *)
(* Numbers.  Energies are Python floats in kWh.  They are modelled as     *)
(* exact integers counted in 1/160 kWh (KWH units per kWh): every catalog *)
(* draw is a multiple of 0.1 kWh and every slider value a multiple of 0.5 *)
(* hour, so draw * hours / 8 is a whole number of units.  Means are kept  *)
(* as exact fractions [num, den].  Binary rounding of the floats is not   *)
(* modelled.                                                               *)
(*                                                                         *)
(* Text.  Strings the code transforms (the dwelling size it lower-cases,  *)
(* the date it formats and parses) are sequences of one-character         *)
(* strings; strings it only stores or looks up are TLA+ strings.          *)
(***************************************************************************)
EXTENDS Integers, Sequences, FiniteSets, TLC

VARIABLES
    user_profile,   \* st.session_state.user_profile: a dict, {} until saved
    energy_data,    \* st.session_state.energy_data: the list of entries
    now,            \* the clock read by datetime.now() in save_daily_consumption
    confirm_shown,  \* the confirmation checkbox was rendered by the last run
    event,          \* the user interaction that triggered the last script run
    saved,          \* history: date string -> payload of the latest save for it
    arg,            \* input of the calculation under study
    result,         \* its output
    pc              \* position of the calculation / scenario under study

vars == <<user_profile, energy_data, now, confirm_shown, event, saved, arg, result, pc>>

\* ------------------------------------------------------------------ bounds

MaxSaves == 3          \* saves of consumption in one session
MaxFacilityLen == 4    \* longest dwelling-size string tried
MaxRecords == 15       \* largest store the insights are computed from
NumStarts == 9         \* first days tried for the seven-day scenario

\* ------------------------------------------------------------------- units

KWH == 10 * 16         \* units per kWh: tenths of a kWh, sixteenths of a draw

\* A float literal with one decimal, n/10 kWh (0.4 is Tenths(4))
Tenths(n) == (n * KWH) \div 10

\* ------------------------------------------------------------------- text

UpperCase == <<"A","B","C","D","E","F","G","H","I","J","K","L","M",
               "N","O","P","Q","R","S","T","U","V","W","X","Y","Z">>
LowerCase == <<"a","b","c","d","e","f","g","h","i","j","k","l","m",
               "n","o","p","q","r","s","t","u","v","w","x","y","z">>

LowerChar(c) ==
    IF \E i \in 1..26 : UpperCase[i] = c
    THEN LowerCase[CHOOSE i \in 1..26 : UpperCase[i] = c]
    ELSE c

\* str.lower()
Lower(s) == [i \in 1..Len(s) |-> LowerChar(s[i])]

Digits == <<"0","1","2","3","4","5","6","7","8","9">>
Digit(n) == Digits[n + 1]
DigitValue(c) == (CHOOSE i \in 1..10 : Digits[i] = c) - 1

\* ------------------------------------------------------------------- dates
\* A datetime.date is <<year, month, day>>.

IsLeap(y) == (y % 4 = 0) /\ ((y % 100 # 0) \/ (y % 400 = 0))

DaysInMonth(y, m) ==
    IF m = 2 THEN (IF IsLeap(y) THEN 29 ELSE 28)
    ELSE IF m \in {4, 6, 9, 11} THEN 30 ELSE 31

RECURSIVE DaysBeforeMonth(_, _)
DaysBeforeMonth(y, m) ==
    IF m = 1 THEN 0 ELSE DaysBeforeMonth(y, m - 1) + DaysInMonth(y, m - 1)

DaysBeforeYear(y) ==
    (y - 1) * 365 + ((y - 1) \div 4) - ((y - 1) \div 100) + ((y - 1) \div 400)

\* date.toordinal(): 0001-01-01 is day 1
ToOrdinal(date) ==
    DaysBeforeYear(date[1]) + DaysBeforeMonth(date[1], date[2]) + date[3]

\* date + timedelta(days=1)
NextDay(date) ==
    IF date[3] < DaysInMonth(date[1], date[2]) THEN <<date[1], date[2], date[3] + 1>>
    ELSE IF date[2] < 12 THEN <<date[1], date[2] + 1, 1>>
    ELSE <<date[1] + 1, 1, 1>>

RECURSIVE PlusDays(_, _)
PlusDays(date, k) == IF k = 0 THEN date ELSE PlusDays(NextDay(date), k - 1)

\* date.strftime('%Y-%m-%d'): zero-padded, ten characters
Strftime(date) ==
    << Digit(date[1] \div 1000), Digit((date[1] \div 100) % 10),
       Digit((date[1] \div 10) % 10), Digit(date[1] % 10), "-",
       Digit(date[2] \div 10), Digit(date[2] % 10), "-",
       Digit(date[3] \div 10), Digit(date[3] % 10) >>

\* pd.to_datetime on a 'YYYY-MM-DD' string: the day it denotes, as an ordinal
ToDatetime(s) ==
    ToOrdinal(<< DigitValue(s[1]) * 1000 + DigitValue(s[2]) * 100
                   + DigitValue(s[3]) * 10 + DigitValue(s[4]),
                 DigitValue(s[6]) * 10 + DigitValue(s[7]),
                 DigitValue(s[9]) * 10 + DigitValue(s[10]) >>)

\* The calendar date of an ordinal (the year isocalendar() starts from)
RECURSIVE YearOf(_, _)
YearOf(ord, y) == IF DaysBeforeYear(y + 1) < ord THEN YearOf(ord, y + 1) ELSE y
RECURSIVE MonthOf(_, _, _)
MonthOf(ord, y, m) ==
    IF m < 12 /\ DaysBeforeYear(y) + DaysBeforeMonth(y, m + 1) < ord
    THEN MonthOf(ord, y, m + 1) ELSE m
FromOrdinal(ord) ==
    LET y == YearOf(ord, 2000)
        m == MonthOf(ord, y, 1)
    IN  <<y, m, ord - DaysBeforeYear(y) - DaysBeforeMonth(y, m)>>

\* date.weekday(): Monday is 0
Weekday(ord) == (ord + 6) % 7

\* Monday of ISO week 1 of a year
IsoWeek1Monday(y) ==
    LET firstday == DaysBeforeYear(y) + 1
        firstweekday == (firstday + 6) % 7
        monday == firstday - firstweekday
    IN  IF firstweekday > 3 THEN monday + 7 ELSE monday

\* Series.dt.isocalendar().week of a day given as an ordinal
IsoWeek(ord) ==
    LET y == FromOrdinal(ord)[1]
        w == (ord - IsoWeek1Monday(y)) \div 7
    IN  IF ord < IsoWeek1Monday(y)
        THEN ((ord - IsoWeek1Monday(y - 1)) \div 7) + 1
        ELSE IF w >= 52 /\ ord >= IsoWeek1Monday(y + 1) THEN 1
        ELSE w + 1

\* ------------------------------------------------------------ calculators

Facility1BHK == <<"1","B","H","K">>
Facility2BHK == <<"2","B","H","K">>
Facility3BHK == <<"3","B","H","K">>

\* energy_map: 0.4 kWh lighting + 0.8 kWh general use per room
EnergyMap(key) ==
    IF key = <<"1","b","h","k">> THEN 2 * Tenths(4) + 2 * Tenths(8)
    ELSE IF key = <<"2","b","h","k">> THEN 3 * Tenths(4) + 3 * Tenths(8)
    ELSE IF key = <<"3","b","h","k">> THEN 4 * Tenths(4) + 4 * Tenths(8)
    ELSE 0

\* (mutant) the key is looked up as given, not lower-cased
base_energy_without_lower(facility) == EnergyMap(facility)

calculate_base_energy(facility) == EnergyMap(Lower(facility))

Catalog == <<"AC", "Refrigerator", "Washing Machine", "TV", "Microwave",
             "Water Heater", "Dishwasher", "Ceiling Fan">>

\* appliance_consumption.get(appliance, 0)
appliance_consumption(appliance) ==
    CASE appliance = "AC" -> Tenths(30)
      [] appliance = "Refrigerator" -> Tenths(30)
      [] appliance = "Washing Machine" -> Tenths(30)
      [] appliance = "TV" -> Tenths(5)
      [] appliance = "Microwave" -> Tenths(15)
      [] appliance = "Water Heater" -> Tenths(20)
      [] appliance = "Dishwasher" -> Tenths(25)
      [] appliance = "Ceiling Fan" -> Tenths(3)
      [] OTHER -> 0

RECURSIVE calculate_appliance_energy(_)
calculate_appliance_energy(appliances) ==
    IF appliances = <<>> THEN 0
    ELSE appliance_consumption(Head(appliances)) + calculate_appliance_energy(Tail(appliances))

Adjustable == {"AC", "TV", "Microwave", "Water Heater"}

\* base_consumption of the usage-hours adjustment
base_consumption(appliance) ==
    CASE appliance = "AC" -> Tenths(30)
      [] appliance = "TV" -> Tenths(5)
      [] appliance = "Microwave" -> Tenths(15)
      [] appliance = "Water Heater" -> Tenths(20)

\* The sliders: one per selected adjustable appliance.  Hours are counted in
\* half hours (the slider's step), 0..48.
SliderAppliances(appliances) ==
    {appliances[i] : i \in 1..Len(appliances)} \cap Adjustable

\* (mutant) the usage-based draw is added on top of the flat draw
RECURSIVE AddWithoutSubtracting(_, _, _)
AddWithoutSubtracting(energy, appliances, usage_hours) ==
    IF appliances = <<>> THEN energy
    ELSE LET a == Head(appliances)
             e == IF a \in DOMAIN usage_hours /\ a \in Adjustable
                  THEN energy + ((base_consumption(a) * usage_hours[a]) \div (2 * 8))
                  ELSE energy
         IN  AddWithoutSubtracting(e, Tail(appliances), usage_hours)

\* adjusted_appliance_energy: the flat sum, then for every slider
\* (base_consumption * hours / 8) - base_consumption
RECURSIVE AddAdjustments(_, _, _)
AddAdjustments(energy, appliances, usage_hours) ==
    IF appliances = <<>> THEN energy
    ELSE LET a == Head(appliances)
             e == IF a \in DOMAIN usage_hours /\ a \in Adjustable
                  THEN energy + ((base_consumption(a) * usage_hours[a]) \div (2 * 8))
                              - base_consumption(a)
                  ELSE energy
         IN  AddAdjustments(e, Tail(appliances), usage_hours)

adjusted_appliance_energy(appliances, usage_hours) ==
    AddAdjustments(calculate_appliance_energy(appliances), appliances, usage_hours)

\* -------------------------------------------------------------- the store

\* The index of the first record with this date string, 0 for None
RECURSIVE ExistingIndex(_, _, _)
ExistingIndex(data, datestr, i) ==
    IF i > Len(data) THEN 0
    ELSE IF data[i].date = datestr THEN i
    ELSE ExistingIndex(data, datestr, i + 1)

Entry(date, base_energy, appliance_energy, total_energy, appliances, notes, clock) ==
    [date |-> Strftime(date), base_energy |-> base_energy,
     appliance_energy |-> appliance_energy, total_energy |-> total_energy,
     appliances |-> appliances, notes |-> notes, timestamp |-> clock]

\* (mutant) the search for an existing entry is skipped: always append
save_always_appends(data, entry) == Append(data, entry)

\* save_daily_consumption: the new value of energy_data
save_daily_consumption(data, entry) ==
    LET existing_index == ExistingIndex(data, entry.date, 1)
    IN  IF existing_index # 0
        THEN [data EXCEPT ![existing_index] = entry]
        ELSE Append(data, entry)

\* Insertion of a row into a table sorted by date
RECURSIVE InsertSorted(_, _)
InsertSorted(rows, row) ==
    IF rows = <<>> THEN <<row>>
    ELSE IF row.date < Head(rows).date THEN <<row>> \o rows
    ELSE <<Head(rows)>> \o InsertSorted(Tail(rows), row)

RECURSIVE SortValues(_)
SortValues(rows) ==
    IF rows = <<>> THEN <<>>
    ELSE InsertSorted(SortValues(Tail(rows)), Head(rows))

\* get_energy_dataframe: <<>> is the empty DataFrame; otherwise the rows with
\* the date column parsed, sorted by date
get_energy_dataframe(data) ==
    IF data = <<>> THEN <<>>
    ELSE SortValues([i \in 1..Len(data) |->
                        [data[i] EXCEPT !.date = ToDatetime(data[i].date)]])

\* -------------------------------------------------------------- analytics
\* A mean is the exact fraction [num / den], den > 0.

RECURSIVE ColumnSum(_, _)
ColumnSum(df, column) ==
    IF df = <<>> THEN 0 ELSE Head(df)[column] + ColumnSum(Tail(df), column)

RECURSIVE ColumnMax(_, _)
ColumnMax(df, column) ==
    IF Len(df) = 1 THEN df[1][column]
    ELSE LET m == ColumnMax(Tail(df), column)
         IN  IF Head(df)[column] > m THEN Head(df)[column] ELSE m

\* Series.mean()
Mean(df, column) == [num |-> ColumnSum(df, column), den |-> Len(df)]

Times(x, p, q) == [num |-> x.num * p, den |-> x.den * q]      \* x * (p / q)
Less(x, y) == x.num * y.den < y.num * x.den                   \* x < y
Kwh(n) == [num |-> n * KWH, den |-> 1]                        \* the literal n

\* df.head(7) and df.tail(7)
DfHead(df, n) == SubSeq(df, 1, IF Len(df) < n THEN Len(df) ELSE n)
DfTail(df, n) == SubSeq(df, IF Len(df) < n THEN 1 ELSE Len(df) - n + 1, Len(df))

\* (mutant) weeks counted in sevens from 1 January
WeekOfYear(row) ==
    ((row.date - DaysBeforeYear(FromOrdinal(row.date)[1]) - 1) \div 7) + 1

\* df['week'] of a row
RowWeek(row) == IsoWeek(row.date)

RECURSIVE SortedKeys(_)
SortedKeys(keys) ==
    IF keys = {} THEN <<>>
    ELSE LET k == CHOOSE x \in keys : \A y \in keys : x <= y
         IN  <<k>> \o SortedKeys(keys \ {k})

\* df.groupby('week')['total_energy'].mean().reset_index()
WeeklyAvg(df) ==
    LET weeks == SortedKeys({ RowWeek(df[i]) : i \in 1..Len(df) })
    IN  [g \in 1..Len(weeks) |->
            [week |-> weeks[g],
             total_energy |-> Mean(SelectSeq(df, LAMBDA row : RowWeek(row) = weeks[g]),
                                   "total_energy")]]

\* Tab 2: the summary metrics and the weekly comparison
Analytics(data) ==
    LET df == get_energy_dataframe(data)
    IN  IF df # <<>>
        THEN [view |-> "metrics",
              days |-> Len(df),
              avg |-> Mean(df, "total_energy"),
              highest |-> ColumnMax(df, "total_energy"),
              monthly |-> Times(Mean(df, "total_energy"), 30, 1),
              weekly_avg |-> IF Len(df) >= 7 THEN WeeklyAvg(df) ELSE <<>>]
        ELSE [view |-> "no_data"]

\* (mutant) the first class also takes its upper boundary
ScoreWithInclusiveBounds(avg_consumption) ==
    IF ~Less(Kwh(5), avg_consumption) THEN "Excellent"
    ELSE IF Less(avg_consumption, Kwh(8)) THEN "Good"
    ELSE IF Less(avg_consumption, Kwh(12)) THEN "Average"
    ELSE "Needs Improvement"

\* The energy efficiency score of tab 3
EfficiencyScore(avg_consumption) ==
    IF Less(avg_consumption, Kwh(5)) THEN "Excellent"
    ELSE IF Less(avg_consumption, Kwh(8)) THEN "Good"
    ELSE IF Less(avg_consumption, Kwh(12)) THEN "Average"
    ELSE "Needs Improvement"

\* (mutant) the earliest seven records are compared whatever the record count
TrendAlwaysComparesHead(df) ==
    IF Len(df) >= 7
    THEN LET recent_week == Mean(DfTail(df, 7), "total_energy")
             previous_week == Mean(DfHead(df, 7), "total_energy")
         IN  IF Less(Times(previous_week, 11, 10), recent_week) THEN <<"increased">>
             ELSE IF Less(recent_week, Times(previous_week, 9, 10)) THEN <<"decreased">>
             ELSE <<>>
    ELSE <<>>

\* The trend rule: what it appends to the recommendations
TrendMessages(df) ==
    IF Len(df) >= 7
    THEN LET recent_week == Mean(DfTail(df, 7), "total_energy")
             previous_week == IF Len(df) >= 14 THEN Mean(DfHead(df, 7), "total_energy")
                              ELSE recent_week
         IN  IF Less(Times(previous_week, 11, 10), recent_week) THEN <<"increased">>
             ELSE IF Less(recent_week, Times(previous_week, 9, 10)) THEN <<"decreased">>
             ELSE <<>>
    ELSE <<>>

GenericTips == <<"natural_light", "ac_setpoint", "phantom_loads", "led_bulbs">>

\* (mutant) the consumption rule also fires at exactly 10 kWh
RecommendationsFromTen(df) ==
    (IF Less(Times(Mean(df, "base_energy"), 2, 1), Mean(df, "appliance_energy"))
     THEN <<"efficient_appliances">> ELSE <<>>)
    \o (IF ~Less(Mean(df, "total_energy"), Kwh(10)) THEN <<"reduce_ac">> ELSE <<>>)
    \o TrendMessages(df)
    \o GenericTips

\* The recommendations list of tab 3, each message named by a tag
Recommendations(df) ==
    (IF Less(Times(Mean(df, "base_energy"), 2, 1), Mean(df, "appliance_energy"))
     THEN <<"efficient_appliances">> ELSE <<>>)
    \o (IF Less(Kwh(10), Mean(df, "total_energy")) THEN <<"reduce_ac">> ELSE <<>>)
    \o TrendMessages(df)
    \o GenericTips

\* Tab 3: the score and the tips displayed, recommendations[:5]
Insights(data) ==
    LET df == get_energy_dataframe(data)
    IN  IF df # <<>>
        THEN [view |-> "insights",
              efficiency_score |-> EfficiencyScore(Mean(df, "total_energy")),
              recommendations |-> Recommendations(df),
              shown |-> DfHead(Recommendations(df), 5)]
        ELSE [view |-> "no_data"]

\* ------------------------------------------------------------ the session
\* Streamlit runs the whole script once per user interaction.  In the run an
\* interaction triggers, st.button returns True for the button that was
\* clicked and False for every other button, and a checkbox returns its
\* ticked state only if the user could tick it, that is if the previous run
\* rendered it.  Each action below is one interaction and the run it triggers.

EmptyDict == [k \in {} |-> 0]

\* "if st.session_state.user_profile": a dict is true iff it has a key
Truthy(dict) == DOMAIN dict # {}

\* The sidebar form as submitted: the text fields left blank or filled in
ProfileForms ==
    { [name |-> "", age |-> 25, city |-> "", area |-> "",
       flat_type |-> "Flat", facility |-> Facility1BHK] }
    \cup
    { [name |-> "Asha", age |-> 34, city |-> "Pune", area |-> "Baner",
       flat_type |-> "Tenement", facility |-> f] :
        f \in { Facility1BHK, Facility2BHK, Facility3BHK } }

\* The dates picked in the session model: New Year's Eve and New Year's Day
DateInputs == { <<2024, 12, 31>>, NextDay(<<2024, 12, 31>>) }

\* The daily-entry form as submitted: the selection, the sliders it brings up
\* (hours counted in half hours) and the notes
EntryForms ==
    { [appliances |-> <<"Refrigerator">>, usage_hours |-> EmptyDict, notes |-> ""],
      [appliances |-> <<"AC", "Ceiling Fan">>, usage_hours |-> [a \in {"AC"} |-> 16],
       notes |-> "power outage"],
      [appliances |-> <<"Ceiling Fan", "AC">>, usage_hours |-> [a \in {"AC"} |-> 0],
       notes |-> ""] }

\* st.button("Clear All Data") and the checkbox nested under it (tab 4)
ClearClicked(trigger) == trigger = "clear_all_data"
ConfirmTicked(trigger, shown) == shown /\ trigger = "tick_confirm"

\* (mutant) the clear is not nested under the confirmation checkbox
Tab4ClearsOnClick(trigger, shown, data) ==
    IF get_energy_dataframe(data) # <<>> /\ ClearClicked(trigger) THEN <<>> ELSE data

\* Tab 4's data management: the store after the run
Tab4Data(trigger, shown, data) ==
    IF get_energy_dataframe(data) # <<>>
    THEN IF ClearClicked(trigger)
         THEN IF ConfirmTicked(trigger, shown) THEN <<>> ELSE data
         ELSE data
    ELSE data

\* ... and whether the run leaves the confirmation checkbox on the page: it is
\* rendered only under a clicked button, and a confirmed clear reruns the script
Tab4Shown(trigger, shown, data) ==
    /\ get_energy_dataframe(data) # <<>>
    /\ ClearClicked(trigger)
    /\ ~ConfirmTicked(trigger, shown)

\* Column 2 of tab 1: the energy breakdown with the save button, or the warning
DailyEntryView(profile) == IF Truthy(profile) THEN "breakdown" ELSE "warning"

\* The three data tabs: each shows its content or its no-data notice
DataView(data) == IF get_energy_dataframe(data) # <<>> THEN "data" ELSE "no_data"

Payload(entry) ==
    [base_energy |-> entry.base_energy, appliance_energy |-> entry.appliance_energy,
     total_energy |-> entry.total_energy, appliances |-> entry.appliances,
     notes |-> entry.notes]

\* History of the saves: per date string ever saved, the payload of its latest
\* save and whether the store has been emptied since
Remember(history, entry) ==
    [d \in DOMAIN history \cup {entry.date} |->
        IF d = entry.date THEN [payload |-> Payload(entry), live |-> TRUE]
        ELSE history[d]]

Forget(history, before, after) ==
    IF before # <<>> /\ after = <<>>
    THEN [d \in DOMAIN history |-> [history[d] EXCEPT !.live = FALSE]]
    ELSE history

Init ==
    /\ user_profile = EmptyDict
    /\ energy_data = <<>>
    /\ now = 0
    /\ confirm_shown = FALSE
    /\ event = "start"
    /\ saved = EmptyDict
    /\ arg = <<>>
    /\ result = <<>>
    /\ pc = "session"

\* The "Save Profile" button
SaveProfile(form) ==
    /\ user_profile' = form
    /\ energy_data' = Tab4Data("save_profile", confirm_shown, energy_data)
    /\ confirm_shown' = Tab4Shown("save_profile", confirm_shown, energy_data)
    /\ event' = "save_profile"
    /\ saved' = Forget(saved, energy_data, energy_data')
    /\ UNCHANGED <<now, arg, result, pc>>

\* The "Save Today's Consumption" button: rendered only with a profile; the
\* handler saves and calls st.rerun(), so the rest of the run is skipped and
\* the script runs again with no button clicked
SaveConsumption(selected_date, appliances, usage_hours, notes) ==
    /\ DailyEntryView(user_profile) = "breakdown"
    /\ now < MaxSaves
    /\ LET base_energy == calculate_base_energy(user_profile.facility)
           adjusted == adjusted_appliance_energy(appliances, usage_hours)
           total_energy == base_energy + adjusted
           entry == Entry(selected_date, base_energy, adjusted, total_energy,
                          appliances, notes, now)
           data == save_daily_consumption(energy_data, entry)
       IN  /\ energy_data' = Tab4Data("rerun", FALSE, data)
           /\ confirm_shown' = Tab4Shown("rerun", FALSE, data)
           /\ saved' = Forget(Remember(saved, entry), data, energy_data')
    /\ now' = now + 1
    /\ event' = "save_consumption"
    /\ UNCHANGED <<user_profile, arg, result, pc>>

\* The "Clear All Data" button: rendered only when the store is not empty
PressClearAllData ==
    /\ DataView(energy_data) = "data"
    /\ energy_data' = Tab4Data("clear_all_data", confirm_shown, energy_data)
    /\ confirm_shown' = Tab4Shown("clear_all_data", confirm_shown, energy_data)
    /\ event' = "clear_all_data"
    /\ saved' = Forget(saved, energy_data, energy_data')
    /\ UNCHANGED <<user_profile, now, arg, result, pc>>

\* Ticking "I understand this will delete all my data": possible only while
\* the checkbox is on the page
TickConfirm ==
    /\ confirm_shown
    /\ energy_data' = Tab4Data("tick_confirm", confirm_shown, energy_data)
    /\ confirm_shown' = Tab4Shown("tick_confirm", confirm_shown, energy_data)
    /\ event' = "tick_confirm"
    /\ saved' = Forget(saved, energy_data, energy_data')
    /\ UNCHANGED <<user_profile, now, arg, result, pc>>

\* Any other interaction (editing a field, moving a slider, picking a date):
\* the script runs and renders the tabs with no button clicked
Render ==
    /\ energy_data' = Tab4Data("widget", confirm_shown, energy_data)
    /\ confirm_shown' = Tab4Shown("widget", confirm_shown, energy_data)
    /\ event' = "render"
    /\ saved' = Forget(saved, energy_data, energy_data')
    /\ UNCHANGED <<user_profile, now, arg, result, pc>>

Next ==
    \/ \E form \in ProfileForms : SaveProfile(form)
    \/ \E d \in DateInputs, f \in EntryForms :
         SaveConsumption(d, f.appliances, f.usage_hours, f.notes)
    \/ PressClearAllData
    \/ TickConfirm
    \/ Render

Spec == Init /\ [][Next]_vars

\* ------------------------------------------------- claims on the session

StoredDates(data) == { data[i].date : i \in 1..Len(data) }
RecordsFor(data, datestr) == { i \in 1..Len(data) : data[i].date = datestr }

\* C1: the store holds at most one record per date.  Every date saved since
\* the store was last emptied has exactly one record, carrying the payload
\* (base, appliance, total, appliances, notes) of its latest save; a date
\* never saved, or saved only before the store was emptied, has none; so the
\* record count never exceeds the number of distinct dates saved.
C1_OneRecordPerDate ==
    /\ \A d \in DOMAIN saved :
          IF saved[d].live
          THEN /\ Cardinality(RecordsFor(energy_data, d)) = 1
               /\ \A i \in RecordsFor(energy_data, d) :
                     Payload(energy_data[i]) = saved[d].payload
          ELSE RecordsFor(energy_data, d) = {}
    /\ StoredDates(energy_data) \subseteq DOMAIN saved
    /\ Len(energy_data) = Cardinality(StoredDates(energy_data))
    /\ Len(energy_data) <= Cardinality(DOMAIN saved)

\* Three saves over two dates: one of them overwrote a record in place
C1_Witness ==
    /\ now = 3
    /\ Len(energy_data) = 2
    /\ Cardinality(DOMAIN saved) = 2

\* C2: once the user has pressed "Clear All Data" and then ticked the
\* confirmation checkbox, the store is empty and the analytics, insights and
\* history tabs show their no-data notice.
C2_TwoStepClearEmpties ==
    event = "tick_confirm" => (energy_data = <<>> /\ DataView(energy_data) = "no_data")

\* C3: a stored date leaves the store only in the run of a confirmed clear
\* (the checkbox ticked after the button was pressed), which removes every
\* record; no other interaction removes a date.
C3_OnlyConfirmedClearDeletes ==
    [][ \/ StoredDates(energy_data) \subseteq StoredDates(energy_data')
        \/ (event' = "tick_confirm" /\ energy_data' = <<>>) ]_vars

\* "Clear All Data" was pressed without a confirmation and the store is intact
C3_Witness ==
    /\ event = "clear_all_data"
    /\ confirm_shown
    /\ Len(energy_data) = 2

\* A profile is complete when it has been saved with its text fields filled in
ProfileComplete(profile) ==
    /\ Truthy(profile)
    /\ profile.name # ""
    /\ profile.city # ""
    /\ profile.area # ""

\* C4: while the profile is missing or incomplete the daily entry shows the
\* warning instead of the breakdown and its save button, and no consumption is
\* saved.
C4_BlockedUntilProfileComplete ==
    /\ ~ProfileComplete(user_profile) => DailyEntryView(user_profile) = "warning"
    /\ event = "save_consumption" => ProfileComplete(user_profile)

\* ------------------------------------------- calculate_base_energy alone

Idle(input) ==
    /\ user_profile = EmptyDict
    /\ energy_data = <<>>
    /\ now = 0
    /\ confirm_shown = FALSE
    /\ event = "start"
    /\ saved = EmptyDict
    /\ arg = input
    /\ result = <<>>
    /\ pc = "call"

FacilityChars == { "1", "2", "3", "4", "B", "b", "H", "K", "k" }

InitBase == \E n \in 0..MaxFacilityLen : \E f \in [1..n -> FacilityChars] : Idle(f)

CallBaseEnergy ==
    /\ pc = "call"
    /\ result' = calculate_base_energy(arg)
    /\ pc' = "done"
    /\ UNCHANGED <<user_profile, energy_data, now, confirm_shown, event, saved, arg>>

NextBase == CallBaseEnergy

SpecBase == InitBase /\ [][NextBase]_vars

\* Two characters are the same letter in either case, or the same character
SameCharIgnoringCase(c, d) ==
    \/ c = d
    \/ \E i \in 1..26 : {c, d} = {UpperCase[i], LowerCase[i]}

EqualIgnoringCase(s, t) ==
    /\ Len(s) = Len(t)
    /\ \A i \in 1..Len(s) : SameCharIgnoringCase(s[i], t[i])

\* C5 as stated: 2.4, 3.6 and 4.8 kWh for exactly '1BHK', '2BHK' and '3BHK',
\* and 0 for any other string.
C5_ZeroForAnyOtherString ==
    pc = "done" =>
        result = (IF arg = Facility1BHK THEN Tenths(24)
                  ELSE IF arg = Facility2BHK THEN Tenths(36)
                  ELSE IF arg = Facility3BHK THEN Tenths(48)
                  ELSE 0)

\* C5 (amended): calculate_base_energy returns 2.4, 3.6 and 4.8 kWh for the
\* dwelling sizes '1BHK', '2BHK' and '3BHK' written in any letter case, and 0
\* for every other string.
C5_BaseEnergyIgnoringCase ==
    pc = "done" =>
        result = (IF EqualIgnoringCase(arg, Facility1BHK) THEN (24 * KWH) \div 10
                  ELSE IF EqualIgnoringCase(arg, Facility2BHK) THEN (36 * KWH) \div 10
                  ELSE IF EqualIgnoringCase(arg, Facility3BHK) THEN (48 * KWH) \div 10
                  ELSE 0)

\* The selectbox's own spelling of a size has been looked up
C5_Witness ==
    /\ pc = "done"
    /\ arg = Facility2BHK
    /\ result = (36 * KWH) \div 10

\* --------------------------------- the appliance energy of a daily entry

Universe == Catalog \o <<"Toaster">>       \* the catalog and an unknown name
HourChoices == { 0, 1, 16, 48 }            \* half hours: 0 h, 0.5 h, 8 h, 24 h

RECURSIVE Select(_, _)
Select(names, chosen) ==
    IF names = <<>> THEN <<>>
    ELSE IF Head(names) \in chosen THEN <<Head(names)>> \o Select(Tail(names), chosen)
    ELSE Select(Tail(names), chosen)

Reverse(s) == [i \in 1..Len(s) |-> s[Len(s) + 1 - i]]

InitEntry ==
    \E S \in SUBSET { Universe[i] : i \in 1..Len(Universe) } :
        \E rev \in BOOLEAN, h \in [S \cap Adjustable -> HourChoices] :
            Idle([appliances |-> IF rev THEN Reverse(Select(Universe, S))
                                 ELSE Select(Universe, S),
                  usage_hours |-> h])

ComputeEntry ==
    /\ pc = "call"
    /\ result' = [flat |-> calculate_appliance_energy(arg.appliances),
                  adjusted |-> adjusted_appliance_energy(arg.appliances, arg.usage_hours)]
    /\ pc' = "done"
    /\ UNCHANGED <<user_profile, energy_data, now, confirm_shown, event, saved, arg>>

NextEntry == ComputeEntry

SpecEntry == InitEntry /\ [][NextEntry]_vars

\* The catalog's draws in tenths of a kWh per day; unknown names draw nothing
CatalogTenths(a) ==
    CASE a \in {"AC", "Refrigerator", "Washing Machine"} -> 30
      [] a = "TV" -> 5
      [] a = "Microwave" -> 15
      [] a = "Water Heater" -> 20
      [] a = "Dishwasher" -> 25
      [] a = "Ceiling Fan" -> 3
      [] OTHER -> 0

\* Sixteen times the contribution of one appliance, in tenths of a kWh: the
\* flat draw, or draw * hours / 8 with the hours counted in half hours
Contribution16(a, usage_hours) ==
    IF a \in Adjustable THEN CatalogTenths(a) * usage_hours[a] ELSE 16 * CatalogTenths(a)

RECURSIVE SumContribution16(_, _)
SumContribution16(S, usage_hours) ==
    IF S = {} THEN 0
    ELSE LET a == CHOOSE x \in S : TRUE
         IN  Contribution16(a, usage_hours) + SumContribution16(S \ {a}, usage_hours)

Selection(appliances) == { appliances[i] : i \in 1..Len(appliances) }

\* C6: the appliance energy of a daily entry is the sum over the selection of
\* each appliance's contribution: the flat catalog draw of a non-adjustable
\* appliance (0 for an unknown one), draw * hours / 8 of an adjustable one.  So
\* the empty selection gives 0, 8 hours everywhere gives the flat sum, an
\* appliance at 0 hours contributes nothing, and the result is never negative.
C6_ApplianceEnergyIsSumOfContributions ==
    pc = "done" =>
        LET S == Selection(arg.appliances)
            h == arg.usage_hours
        IN  /\ 16 * 10 * result.adjusted = KWH * SumContribution16(S, h)
            /\ 16 * 10 * result.flat = KWH * SumContribution16(S, [a \in DOMAIN h |-> 16])
            /\ S = {} => result.adjusted = 0
            /\ (\A a \in DOMAIN h : h[a] = 16) => result.adjusted = result.flat
            /\ \A a \in DOMAIN h :
                  h[a] = 0 => 16 * 10 * result.adjusted = KWH * SumContribution16(S \ {a}, h)
            /\ result.adjusted >= 0

\* An entry mixing flat, unknown and adjustable appliances, one of them at 0 h
C6_Witness ==
    /\ pc = "done"
    /\ Selection(arg.appliances) = {"AC", "TV", "Ceiling Fan", "Toaster"}
    /\ arg.usage_hours["AC"] = 0
    /\ arg.usage_hours["TV"] = 48
    /\ 10 * result.adjusted = 18 * KWH

\* ------------------------------------------- seven consecutive days saved

WeekTotals == <<4, 5, 6, 5, 4, 6, 5>>      \* kWh, for the first to the seventh day
FirstStart == <<2024, 12, 23>>             \* a Monday

\* The k-th day's record: the base energy of a 1BHK, the rest from appliances
DayEntry(start, k, clock) ==
    Entry(PlusDays(start, k - 1), calculate_base_energy(Facility1BHK),
          WeekTotals[k] * KWH - calculate_base_energy(Facility1BHK),
          WeekTotals[k] * KWH, <<"Refrigerator">>, "", clock)

InitWeek ==
    /\ \E k \in 0..(NumStarts - 1) : Idle(PlusDays(FirstStart, k))
    /\ pc = "call"

Unsaved ==
    { k \in 1..7 :
        Strftime(PlusDays(arg, k - 1)) \notin { energy_data[i].date : i \in 1..Len(energy_data) } }

\* The earliest or the latest of the days not saved yet is saved, so the store
\* is filled in any of 64 orders
SaveDay(k) ==
    /\ pc = "call"
    /\ k \in Unsaved
    /\ (\A j \in Unsaved : k <= j) \/ (\A j \in Unsaved : j <= k)
    /\ energy_data' = save_daily_consumption(energy_data, DayEntry(arg, k, now))
    /\ now' = now + 1
    /\ UNCHANGED <<user_profile, confirm_shown, event, saved, arg, result, pc>>

\* With the seven days saved, tab 2 is rendered
ShowAnalytics ==
    /\ pc = "call"
    /\ Len(energy_data) = 7
    /\ result' = Analytics(energy_data)
    /\ pc' = "done"
    /\ UNCHANGED <<user_profile, energy_data, now, confirm_shown, event, saved, arg>>

NextWeek ==
    \/ \E k \in 1..7 : SaveDay(k)
    \/ ShowAnalytics

SpecWeek == InitWeek /\ [][NextWeek]_vars

WeekSummaryIsFive ==
    /\ result.view = "metrics"
    /\ result.days = 7
    /\ result.avg.num = 5 * KWH * result.avg.den
    /\ result.highest = 6 * KWH
    /\ result.monthly.num = 150 * KWH * result.monthly.den

\* C7 as stated: seven consecutive dates with totals [4,5,6,5,4,6,5] give
\* count 7, mean 5.0, max 6, monthly estimate 150.0 and a weekly average of
\* one ISO-week group whose value is 5.0.
C7_SingleWeekGroup ==
    pc = "done" =>
        /\ WeekSummaryIsFive
        /\ Len(result.weekly_avg) = 1
        /\ result.weekly_avg[1].total_energy.num
              = 5 * KWH * result.weekly_avg[1].total_energy.den

\* C7 (amended): seven consecutive dates with totals [4,5,6,5,4,6,5] give
\* count 7, mean 5.0, max 6 and monthly estimate 150.0; the weekly average is
\* one ISO-week group of value 5.0 when the first date is a Monday, and two
\* groups, one per ISO week the dates fall in, otherwise.
C7_WeekGroupsFollowIsoWeeks ==
    pc = "done" =>
        /\ WeekSummaryIsFive
        /\ IF Weekday(ToOrdinal(arg)) = 0
           THEN /\ Len(result.weekly_avg) = 1
                /\ result.weekly_avg[1].total_energy.num
                      = 5 * KWH * result.weekly_avg[1].total_energy.den
           ELSE /\ Len(result.weekly_avg) = 2
                /\ result.weekly_avg[1].week < result.weekly_avg[2].week

\* The seven days from Monday 30 December 2024 to Sunday 5 January 2025,
\* saved latest first, make up ISO week 1
C7_Witness ==
    /\ pc = "done"
    /\ arg = <<2024, 12, 30>>
    /\ energy_data[1].date = Strftime(<<2025, 1, 5>>)
    /\ Len(result.weekly_avg) = 1
    /\ result.weekly_avg[1].week = 1

\* ------------------------------------------------- insights over a store

\* <<early, late>> kWh totals tried: on and around the class boundaries 5, 8,
\* 12, the rule boundary 10, and the trend ratios 0.8, 0.9, 1.1, 1.2
Levels == { <<0, 0>>, <<4, 4>>, <<5, 5>>, <<8, 8>>, <<10, 10>>, <<12, 12>>,
            <<4, 5>>, <<4, 12>>, <<12, 4>>,
            <<10, 8>>, <<10, 9>>, <<10, 11>>, <<10, 12>> }
Shares == { "base_only", "a_third_base", "appliances_only" }
FirstDay == <<2024, 12, 20>>

\* A store of n records on consecutive days: the earliest `split` days consumed
\* `early` kWh each, the later ones `late`; saved oldest first or newest first
StoreRecord(a, rank, clock) ==
    LET total == (IF rank <= a.split THEN a.early ELSE a.late) * KWH
        base == CASE a.share = "base_only" -> total
                  [] a.share = "a_third_base" -> total \div 3
                  [] a.share = "appliances_only" -> 0
    IN  Entry(PlusDays(FirstDay, rank - 1), base, total - base, total,
              <<"Refrigerator">>, "", clock)

BuildStore(a) ==
    [i \in 1..a.n |-> StoreRecord(a, IF a.newest_first THEN a.n + 1 - i ELSE i, i - 1)]

InitInsights ==
    \E n \in 1..MaxRecords :
        \E split \in 0..n, level \in Levels,
           share \in Shares, newest_first \in BOOLEAN :
            LET a == [n |-> n, split |-> split, early |-> level[1], late |-> level[2],
                      share |-> share, newest_first |-> newest_first]
            IN  /\ user_profile = EmptyDict
                /\ energy_data = BuildStore(a)
                /\ now = n
                /\ confirm_shown = FALSE
                /\ event = "start"
                /\ saved = EmptyDict
                /\ arg = a
                /\ result = <<>>
                /\ pc = "call"

\* Tab 3 is rendered
ShowInsights ==
    /\ pc = "call"
    /\ result' = Insights(energy_data)
    /\ pc' = "done"
    /\ UNCHANGED <<user_profile, energy_data, now, confirm_shown, event, saved, arg>>

NextInsights == ShowInsights

SpecInsights == InitInsights /\ [][NextInsights]_vars

RECURSIVE SumOver(_, _, _)
SumOver(data, indices, column) ==
    IF indices = {} THEN 0
    ELSE LET i == CHOOSE x \in indices : TRUE
         IN  data[i][column] + SumOver(data, indices \ {i}, column)

TotalSum == SumOver(energy_data, 1..Len(energy_data), "total_energy")

\* C8: for a non-empty store the efficiency score is 'Excellent' iff the mean
\* total energy m < 5, 'Good' iff 5 <= m < 8, 'Average' iff 8 <= m < 12 and
\* 'Needs Improvement' iff m >= 12 (m = TotalSum / n, in kWh).
C8_EfficiencyScoreClasses ==
    pc = "done" =>
        LET n == Len(energy_data)
            score == result.efficiency_score
        IN  /\ score \in {"Excellent", "Good", "Average", "Needs Improvement"}
            /\ score = "Excellent" <=> TotalSum < 5 * KWH * n
            /\ score = "Good" <=> (5 * KWH * n <= TotalSum /\ TotalSum < 8 * KWH * n)
            /\ score = "Average" <=> (8 * KWH * n <= TotalSum /\ TotalSum < 12 * KWH * n)
            /\ score = "Needs Improvement" <=> TotalSum >= 12 * KWH * n

\* A mean of exactly 8 kWh from unequal totals is scored 'Average'
C8_Witness ==
    /\ pc = "done"
    /\ arg.early = 4 /\ arg.late = 12 /\ arg.n = 2 * arg.split
    /\ TotalSum = 8 * KWH * Len(energy_data)
    /\ result.efficiency_score = "Average"

TriggeredTags == {"efficient_appliances", "reduce_ac", "increased", "decreased"}
TrendTags == {"increased", "decreased"}
IsTriggered(tag) == tag \in TriggeredTags
IsGeneric(tag) == tag \notin TriggeredTags
IsTrend(tag) == tag \in TrendTags

\* C9: the displayed recommendations are the first 5 of: the efficient-
\* appliances message iff mean(appliance) > 2 * mean(base), the reduce-AC
\* message iff mean(total) > 10, at most one trend message, then the four
\* generic tips in their fixed order; between 4 and 5 are shown.
C9_FirstFiveInFixedOrder ==
    pc = "done" =>
        LET n == Len(energy_data)
            rule1 == SumOver(energy_data, 1..n, "appliance_energy")
                        > 2 * SumOver(energy_data, 1..n, "base_energy")
            rule2 == TotalSum > 10 * KWH * n
            shown == result.shown
            triggered == SelectSeq(shown, IsTriggered)
            generic == SelectSeq(shown, IsGeneric)
            trend == SelectSeq(shown, IsTrend)
            kept == IF 5 - Len(triggered) < 4 THEN 5 - Len(triggered) ELSE 4
        IN  /\ shown = triggered \o generic
            /\ Len(trend) <= 1
            /\ triggered = (IF rule1 THEN <<"efficient_appliances">> ELSE <<>>)
                           \o (IF rule2 THEN <<"reduce_ac">> ELSE <<>>)
                           \o trend
            /\ generic = SubSeq(<<"natural_light", "ac_setpoint",
                                  "phantom_loads", "led_bulbs">>, 1, kept)
            /\ Len(shown) \in {4, 5}

\* All three rules fire: two generic tips are left on display
C9_Witness ==
    /\ pc = "done"
    /\ result.shown = <<"efficient_appliances", "reduce_ac", "increased",
                        "natural_light", "ac_setpoint">>

\* Records with fewer than seven later-dated (earlier-dated) records
Latest7 ==
    { i \in 1..Len(energy_data) :
        Cardinality({ j \in 1..Len(energy_data) :
            ToDatetime(energy_data[j].date) > ToDatetime(energy_data[i].date) }) < 7 }
Earliest7 ==
    { i \in 1..Len(energy_data) :
        Cardinality({ j \in 1..Len(energy_data) :
            ToDatetime(energy_data[j].date) < ToDatetime(energy_data[i].date) }) < 7 }

\* C10: with 14 or more records the increase warning is emitted iff the mean
\* of the 7 latest-dated records exceeds 1.1 times the mean of the 7 earliest-
\* dated ones, the decrease praise iff it is below 0.9 times that mean, never
\* both; with fewer than 14 records no trend message is emitted.
C10_TrendRule ==
    pc = "done" =>
        LET recent == SumOver(energy_data, Latest7, "total_energy")
            earliest == SumOver(energy_data, Earliest7, "total_energy")
            emitted == { result.recommendations[i] : i \in 1..Len(result.recommendations) }
        IN  /\ ~({"increased", "decreased"} \subseteq emitted)
            /\ Len(energy_data) >= 14 =>
                  /\ "increased" \in emitted <=> 10 * recent > 11 * earliest
                  /\ "decreased" \in emitted <=> 10 * recent < 9 * earliest
            /\ Len(energy_data) < 14 => emitted \cap {"increased", "decreased"} = {}

\* Fifteen records, saved newest first, whose last seven consume more
C10_Witness ==
    /\ pc = "done"
    /\ Len(energy_data) = 15
    /\ arg.newest_first
    /\ arg.early = 10 /\ arg.late = 12 /\ arg.split = 9
    /\ "increased" \in { result.recommendations[i] : i \in 1..Len(result.recommendations) }

====
